---- MODULE Spec2Model ----
(***************************************************************************)
(* svn-merge-tool: the per-revision merge pipeline (merger.ts), the status *)
(* classifier and the gateway wrappers (svn.ts), the ignore matcher, the   *)
(* revision compressor and the conflict summary (utils.ts), the commit     *)
(* message (message.ts) and the command-line process (index.ts).           *)
(*                                                                         *)
(* Text is modelled as a sequence of one-character strings, so that        *)
(* trimming, prefix tests, case folding and column indexing are computed   *)
(* as the code computes them.  The output of a command is a sequence of    *)
(* lines (the value of stdout.split(/\r?\n/)).                             *)
(***************************************************************************)
EXTENDS Integers, Sequences, FiniteSets, TLC

VARIABLES
    pc,            \* position of the process: "loop", "status1", "resolve", "status2",
                   \* "revert", "returned", "thrown" ("idle" when only a function is applied);
                   \* in index.ts: "info", "dirty", "confirmDirty", "update", "eligible",
                   \* "logs", "confirmMerge", "preview", "message", "commit", "exited"
    revisions,     \* options.revisions
    ignorePaths,   \* options.ignorePaths
    i,             \* run(): loop index, 1-based
    results,       \* run(): results
    summary,       \* run(): the MergeSummary returned, or NoSummary
    wc,            \* the working copy: path -> <<col0, col1, col6>> of its status line
    calls,         \* gateway calls issued for the revision in progress (or last completed)
    mergeOut,      \* mergeRevision(): { stdout, stderr, exitCode } while they are live
    mergeLog,      \* revisions for which svnMerge was issued, in issue order
    conflicts,     \* mergeRevision(): conflicts
    k,             \* mergeRevision(): index of the conflict whose resolve is next
    modifications, \* mergeRevision(): modifications
    j,             \* mergeRevision(): index of the modification examined next
    reverted,      \* mergeRevision(): reverted
    probe,         \* a function applied on its own: [op, in, out, done]
    dryRun,        \* index.ts: opts.dryRun
    commit,        \* index.ts: shouldCommit, (opts.commit ?? false) || configCommit
    mainLog,       \* index.ts: its gateway calls and prompts, in order, with what they gave
    exitStatus     \* the argument of process.exit, NotExited before it is called

vars == <<pc, revisions, ignorePaths, i, results, summary, wc, calls, mergeOut, mergeLog,
          conflicts, k, modifications, j, reverted, probe, dryRun, commit, mainLog, exitStatus>>

engineVars == <<pc, revisions, ignorePaths, i, results, summary, wc, calls, mergeOut, mergeLog,
                conflicts, k, modifications, j, reverted>>

mainVars == <<dryRun, commit, mainLog, exitStatus>>

-----------------------------------------------------------------------------
(* Bounds *)

MaxRevs == 2        \* longest revision list
MaxRules == 2       \* longest ignore list given to the matcher probe
MaxEligible == 1    \* most revisions `svn mergeinfo` lists as eligible
MaxConflicts == 2   \* most conflicts of one result given to groupSummaryByType
MaxTokens == 3      \* most comma-separated entries of the -r option given to the parser

-----------------------------------------------------------------------------
(* Text helpers *)

SP == " "
SLASH == "/"
BSLASH == "\\"

Whitespace == {SP, "\t", "\n"}

IsPrefix(s, t) == Len(s) <= Len(t) /\ SubSeq(t, 1, Len(s)) = s

RECURSIVE TrimLeft(_)
TrimLeft(s) ==
    IF s # <<>> /\ Head(s) \in Whitespace THEN TrimLeft(Tail(s)) ELSE s

RECURSIVE TrimRight(_)
TrimRight(s) ==
    IF s # <<>> /\ s[Len(s)] \in Whitespace
    THEN TrimRight(SubSeq(s, 1, Len(s) - 1))
    ELSE s

\* String.prototype.trim
Trim(s) == TrimRight(TrimLeft(s))

\* String.prototype.slice(n), n a 0-based start index
SliceFrom(s, n) == IF n >= Len(s) THEN <<>> ELSE SubSeq(s, n + 1, Len(s))

\* String.prototype.toLowerCase on the modelled alphabet
LowerChar(c) ==
    CASE c = "G" -> "g"
      [] c = "A" -> "a"
      [] c = "X" -> "x"
      [] c = "Y" -> "y"
      [] OTHER   -> c

toLowerCase(s) == [n \in 1..Len(s) |-> LowerChar(s[n])]

\* p.replace(/\\/g, '/')
BackToForward(s) == [n \in 1..Len(s) |-> IF s[n] = BSLASH THEN SLASH ELSE s[n]]

\* p.replace(/\/+$/, '')
RECURSIVE StripTrailingSlashes(_)
StripTrailingSlashes(s) ==
    IF s # <<>> /\ s[Len(s)] = SLASH
    THEN StripTrailingSlashes(SubSeq(s, 1, Len(s) - 1))
    ELSE s

-----------------------------------------------------------------------------
(* utils.ts *)

Workspace == <<"/", "w">>

Abs(rel) == Workspace \o <<SLASH>> \o rel

\* path.relative(from, to) for normalised absolute POSIX paths, from one level deep
PathRelative(from, to) ==
    IF to = from THEN <<>>
    ELSE IF IsPrefix(from \o <<SLASH>>, to) THEN SliceFrom(to, Len(from) + 1)
    ELSE <<".", ".">> \o to

PathIsAbsolute(p) == p # <<>> /\ p[1] = SLASH

relPath(absPath, workspace) ==
    LET rel == PathRelative(workspace, absPath)
    IN  IF PathIsAbsolute(rel) THEN BackToForward(absPath) ELSE BackToForward(rel)

normPath(p) == toLowerCase(StripTrailingSlashes(BackToForward(p)))

\* Variant of MatchesPattern: startsWith(norm), without the separator
MatchesPatternNoBoundary(rel, pattern) ==
    LET norm == normPath(pattern)
    IN  rel = norm \/ IsPrefix(norm, rel)

\* The loop body's test of isIgnored for one pattern
MatchesPattern(rel, pattern) ==
    LET norm == normPath(pattern)
    IN  rel = norm \/ IsPrefix(norm \o <<SLASH>>, rel)

RECURSIVE IgnoredFrom(_, _, _)
IgnoredFrom(rel, patterns, n) ==
    IF n > Len(patterns) THEN FALSE
    ELSE IF MatchesPattern(rel, patterns[n]) THEN TRUE
    ELSE IgnoredFrom(rel, patterns, n + 1)

isIgnored(absPath, workspace, patterns) ==
    IF Len(patterns) = 0 THEN FALSE
    ELSE IgnoredFrom(normPath(relPath(absPath, workspace)), patterns, 1)

\* The filesystem seen by fs.statSync: the paths that exist, and those that are directories
ExistingPaths == {Abs(<<"g">>), Abs(<<"g", "/", "a">>), Abs(<<"g", "x">>)}
Directories == {Abs(<<"g">>)}

\* path.extname: from the last '.' of the last segment, '' if none or if it leads the segment
RECURSIVE LastIndexOf(_, _, _)
LastIndexOf(s, c, n) ==
    IF n = 0 THEN 0 ELSE IF s[n] = c THEN n ELSE LastIndexOf(s, c, n - 1)

extname(p) ==
    LET slash == LastIndexOf(p, SLASH, Len(p))
        dot   == LastIndexOf(p, ".", Len(p))
    IN  IF dot <= slash + 1 THEN <<>> ELSE SliceFrom(p, dot - 1)

isDir(absPath) ==
    IF absPath \in ExistingPaths THEN absPath \in Directories
    ELSE extname(absPath) = <<>>

-----------------------------------------------------------------------------
(* svn.ts: the status classifier *)

NoRecords == [conflicts |-> <<>>, modifications |-> <<>>]

Conflict(path, type, resolution) ==
    [path |-> path, type |-> type, resolution |-> resolution,
     isDirectory |-> isDir(path), ignored |-> FALSE]

Modification(path) == [path |-> path, isDirectory |-> isDir(path)]

\* Variant of ClassifyLine: column 0 tested before the tree-conflict column
ClassifyLineTextFirst(line) ==
    IF Len(line) < 2 THEN NoRecords
    ELSE
      LET col0 == line[1]
          col1 == line[2]
          col6 == IF Len(line) > 6 THEN line[7] ELSE SP
          filePath == Trim(SliceFrom(line, 8))
      IN  IF filePath = <<>> THEN NoRecords
          ELSE IF col0 = "C"
            THEN [NoRecords EXCEPT !.conflicts = <<Conflict(filePath, "text", "theirs-full")>>]
          ELSE IF col6 = "C"
            THEN [NoRecords EXCEPT !.conflicts = <<Conflict(filePath, "tree", "working")>>]
          ELSE IF col1 = "C"
            THEN [NoRecords EXCEPT !.conflicts = <<Conflict(filePath, "property", "theirs-full")>>]
          ELSE IF col0 = SP \/ col0 = "?" \/ col0 = "X" THEN NoRecords
          ELSE [NoRecords EXCEPT !.modifications = <<Modification(filePath)>>]

\* Variant of ClassifyLine: column 1 tested before column 0
ClassifyLinePropertyFirst(line) ==
    IF Len(line) < 2 THEN NoRecords
    ELSE
      LET col0 == line[1]
          col1 == line[2]
          col6 == IF Len(line) > 6 THEN line[7] ELSE SP
          filePath == Trim(SliceFrom(line, 8))
      IN  IF filePath = <<>> THEN NoRecords
          ELSE IF col6 = "C"
            THEN [NoRecords EXCEPT !.conflicts = <<Conflict(filePath, "tree", "working")>>]
          ELSE IF col1 = "C"
            THEN [NoRecords EXCEPT !.conflicts = <<Conflict(filePath, "property", "theirs-full")>>]
          ELSE IF col0 = "C"
            THEN [NoRecords EXCEPT !.conflicts = <<Conflict(filePath, "text", "theirs-full")>>]
          ELSE IF col0 = SP \/ col0 = "?" \/ col0 = "X" THEN NoRecords
          ELSE [NoRecords EXCEPT !.modifications = <<Modification(filePath)>>]

\* One iteration of the loop of svnStatusAfterMerge
ClassifyLine(line) ==
    IF Len(line) < 2 THEN NoRecords
    ELSE
      LET col0 == line[1]
          col1 == line[2]
          col6 == IF Len(line) > 6 THEN line[7] ELSE SP
          filePath == Trim(SliceFrom(line, 8))
      IN  IF filePath = <<>> THEN NoRecords
          ELSE IF col6 = "C"
            THEN [NoRecords EXCEPT !.conflicts = <<Conflict(filePath, "tree", "working")>>]
          ELSE IF col0 = "C"
            THEN [NoRecords EXCEPT !.conflicts = <<Conflict(filePath, "text", "theirs-full")>>]
          ELSE IF col1 = "C"
            THEN [NoRecords EXCEPT !.conflicts = <<Conflict(filePath, "property", "theirs-full")>>]
          ELSE IF col0 = SP \/ col0 = "?" \/ col0 = "X" THEN NoRecords
          ELSE [NoRecords EXCEPT !.modifications = <<Modification(filePath)>>]

RECURSIVE ClassifyFrom(_, _, _)
ClassifyFrom(lines, n, acc) ==
    IF n > Len(lines) THEN acc
    ELSE LET one == ClassifyLine(lines[n])
         IN  ClassifyFrom(lines, n + 1,
                 [conflicts     |-> acc.conflicts \o one.conflicts,
                  modifications |-> acc.modifications \o one.modifications])

\* svnStatusAfterMerge applied to the lines of the status command's stdout
svnStatusAfterMerge(stdoutLines) == ClassifyFrom(stdoutLines, 1, NoRecords)

-----------------------------------------------------------------------------
(* The classifier and the ignore matcher applied on their own *)

\* exitStatus before process.exit is called
NotExited == "none"

NoProbe == [op |-> "none", in |-> <<>>, out |-> <<>>, done |-> FALSE]

\* A status line: seven status columns, a blank, the path
StatusLine(col0, col1, col6, path) ==
    <<col0, col1, SP, SP, SP, SP, col6, SP>> \o path

Col0Values == {SP, "M", "A", "C", "?", "X"}
Col1Values == {SP, "M", "C"}
Col6Values == {SP, "C", ">"}
LinePaths == {Abs(<<"g">>), Abs(<<"g", "/", "a">>) \o <<SP>>, <<SP>> \o Abs(<<"g", "x">>), <<>>}

ProbeLines ==
    {StatusLine(c0, c1, c6, p) : c0 \in Col0Values, c1 \in Col1Values,
                                 c6 \in Col6Values, p \in LinePaths}
    \cup {<<>>, <<"M">>, <<"C", "C">>, <<"C", SP, SP, SP, SP, SP, "C">>}

EngineQuiet ==
    /\ pc = "idle"
    /\ revisions = <<>>
    /\ ignorePaths = <<>>
    /\ i = 1
    /\ results = <<>>
    /\ summary = <<>>
    /\ wc = <<>>
    /\ calls = <<>>
    /\ mergeOut = <<>>
    /\ mergeLog = <<>>
    /\ conflicts = <<>>
    /\ k = 1
    /\ modifications = <<>>
    /\ j = 1
    /\ reverted = <<>>
    /\ dryRun = FALSE
    /\ commit = FALSE
    /\ mainLog = <<>>
    /\ exitStatus = NotExited

InitClassify ==
    /\ EngineQuiet
    /\ \E line \in ProbeLines :
         probe = [op |-> "classify", in |-> line, out |-> <<>>, done |-> FALSE]

Classify ==
    /\ probe.op = "classify"
    /\ ~probe.done
    /\ probe' = [probe EXCEPT !.out = svnStatusAfterMerge(<<probe.in>>), !.done = TRUE]
    /\ UNCHANGED <<engineVars, mainVars>>

SpecClassify == InitClassify /\ [][Classify]_vars

ClassifyDone == probe.op = "classify" /\ probe.done

\* The path field of a status line: what follows column 7, without surrounding blanks
LinePath(line) == Trim(SliceFrom(line, 8))

\* C1: a status line whose tree-conflict column (index 6) is 'C' yields exactly one
\* conflict, of type tree with resolution 'working', for the line's path, and no
\* modification, whatever columns 0 and 1 hold.
C1_TreeMarkerWins ==
    (ClassifyDone /\ Len(probe.in) > 6 /\ probe.in[7] = "C" /\ LinePath(probe.in) # <<>>)
    => /\ Len(probe.out.conflicts) = 1
       /\ probe.out.conflicts[1].type = "tree"
       /\ probe.out.conflicts[1].resolution = "working"
       /\ probe.out.conflicts[1].path = LinePath(probe.in)
       /\ probe.out.modifications = <<>>

\* C1 witness: a classified line with 'C' in columns 0, 1 and 6
C1_Witness ==
    /\ ClassifyDone
    /\ Len(probe.in) > 8
    /\ probe.in[1] = "C" /\ probe.in[2] = "C" /\ probe.in[7] = "C"
    /\ Len(probe.out.conflicts) = 1
    /\ probe.out.conflicts[1].type = "tree"

\* Ignore matcher probe
ProbeRels ==
    {<<"g">>, <<"g", "/", "a">>, <<"g", "x">>, <<"g", "x", "/", "a">>,
     <<"G", "/", "a">>, <<"g", BSLASH, "a">>, <<"a">>}
ProbeRules ==
    {<<"g">>, <<"G">>, <<"g", "/">>, <<"g", "/", "a">>, <<"g", BSLASH, "a">>, <<"g", "x">>,
     <<"/">>}

RuleLists == UNION {[1..n -> ProbeRules] : n \in 0..MaxRules}

InitIgnore ==
    /\ EngineQuiet
    /\ \E rel \in ProbeRels, rules \in RuleLists :
         probe = [op |-> "ignore", in |-> [rel |-> rel, rules |-> rules],
                  out |-> <<>>, done |-> FALSE]

Ignore ==
    /\ probe.op = "ignore"
    /\ ~probe.done
    /\ probe' = [probe EXCEPT !.out = isIgnored(Abs(probe.in.rel), Workspace, probe.in.rules),
                              !.done = TRUE]
    /\ UNCHANGED <<engineVars, mainVars>>

SpecIgnore == InitIgnore /\ [][Ignore]_vars

IgnoreDone == probe.op = "ignore" /\ probe.done

\* The comparison form of a relative path or rule: forward slashes, no trailing
\* slash, lower case
RECURSIVE DropSlashes(_)
DropSlashes(s) ==
    IF s = <<>> THEN s
    ELSE IF s[Len(s)] \in {SLASH, BSLASH} THEN DropSlashes(SubSeq(s, 1, Len(s) - 1))
    ELSE s

Canon(s) ==
    LET t == DropSlashes(s)
    IN  [n \in 1..Len(t) |->
            IF t[n] \in {SLASH, BSLASH} THEN SLASH
            ELSE IF t[n] = "G" THEN "g"
            ELSE IF t[n] = "A" THEN "a"
            ELSE IF t[n] = "X" THEN "x"
            ELSE t[n]]

RuleCovers(rule, rel) ==
    Canon(rel) = Canon(rule) \/ IsPrefix(Canon(rule) \o <<SLASH>>, Canon(rel))

\* C3: isIgnored is true iff the workspace-relative path equals some rule or begins
\* with that rule followed by a path separator (compared in comparison form); a
\* sibling sharing only a string prefix does not match; an empty rule list gives false.
C3_IgnoreMatch ==
    IgnoreDone =>
      /\ probe.out = (\E n \in 1..Len(probe.in.rules) : RuleCovers(probe.in.rules[n], probe.in.rel))
      /\ (probe.in.rules = <<>> => probe.out = FALSE)
      /\ (probe.in.rules = << <<"g">> >> /\ probe.in.rel = <<"g", "x", "/", "a">>
            => probe.out = FALSE)
      /\ (probe.in.rules = << <<"g">> >> /\ probe.in.rel \in {<<"g">>, <<"g", "/", "a">>}
            => probe.out = TRUE)

\* C3 witness: a rule that is a string prefix of a sibling path was tested and did not match
C3_Witness ==
    /\ IgnoreDone
    /\ probe.in.rules = << <<"g">> >>
    /\ probe.in.rel = <<"g", "x", "/", "a">>
    /\ probe.out = FALSE

-----------------------------------------------------------------------------
(* The working copy and the gateway (svn.ts, runSvn and its wrappers) *)

Clean == <<SP, SP, SP>>

\* Paths of the working copy, in the order `svn status` lists them
EnginePaths == <<Abs(<<"g", "/", "a">>), Abs(<<"g", "x">>)>>

PathSet == {EnginePaths[n] : n \in 1..Len(EnginePaths)}

\* What a merge can leave on a path it touches: modified or in text conflict; the
\* first path can also get a property conflict, the second a tree conflict
MergeStatuses(p) ==
    {<<"M", SP, SP>>, <<"C", SP, SP>>}
    \cup (IF p = EnginePaths[1] THEN {<<SP, "C", SP>>} ELSE {<<"M", SP, "C">>})

\* The ways a merge changes the working copy: some paths get a new status
MergeEffects ==
    UNION {{eff \in [T -> UNION {MergeStatuses(p) : p \in PathSet}] :
               \A p \in T : eff[p] \in MergeStatuses(p)} : T \in SUBSET PathSet}

ApplyEffect(w, eff) == [p \in PathSet |-> IF p \in DOMAIN eff THEN eff[p] ELSE w[p]]

\* `svn resolve` succeeded on a path: its conflict markers are gone, the change stays
ResolvedStatus(st) ==
    <<IF st[1] = "C" THEN "M" ELSE st[1], IF st[2] = "C" THEN "M" ELSE st[2], SP>>

\* `svn revert --depth infinity` succeeded on a path: it and everything under it is clean
RevertedCopy(w, path) ==
    [p \in PathSet |-> IF p = path \/ IsPrefix(path \o <<SLASH>>, p) THEN Clean ELSE w[p]]

\* stdout of `svn status`, split into lines; the text ends with a line break
RECURSIVE StatusLinesFrom(_, _)
StatusLinesFrom(w, n) ==
    IF n > Len(EnginePaths) THEN << <<>> >>
    ELSE LET p == EnginePaths[n]
         IN  IF w[p] = Clean THEN StatusLinesFrom(w, n + 1)
             ELSE <<StatusLine(w[p][1], w[p][2], w[p][3], p)>> \o StatusLinesFrom(w, n + 1)

\* ok: the command ran; otherwise it exited nonzero with empty output
StatusStdout(w, ok) == IF ok THEN StatusLinesFrom(w, 1) ELSE << <<>> >>

\* The two status readers merger.ts imports from svn.ts
svnStatusConflicts(stdoutLines) == svnStatusAfterMerge(stdoutLines).conflicts

svnStatusModifications(stdoutLines) == svnStatusAfterMerge(stdoutLines).modifications

\* Outputs of `svn merge`
StdoutTexts == {<<>>, <<SP>>, <<"U">>}
StderrTexts == {<<>>, <<SP>>, <<"E", SP>>}

\* A gateway call and what it returned
Call(op, rev, path, accept, out) ==
    [op |-> op, rev |-> rev, path |-> path, accept |-> accept, out |-> out]

SpawnError == [error |-> TRUE]

MergeOut(exitCode, stdout, stderr) ==
    [exitCode |-> exitCode, stdout |-> stdout, stderr |-> stderr]

\* The merge call's locals are dead
NoMergeOut == <<>>

CallOk == [error |-> FALSE]

\* svnResolve, svnRevert: success is exitCode = 0
ItemOut(success) == [error |-> FALSE, success |-> success]

-----------------------------------------------------------------------------
(* merger.ts: mergeRevision *)

NoMessage == <<>>

\* Variant of isFatalError: the outputs compared without trim()
isFatalErrorUntrimmed(exitCode, stdout, stderr) ==
    exitCode # 0 /\ stdout = <<>> /\ stderr # <<>>

\* Variant of isFatalError: stdout is not read
isFatalErrorAnyStdout(exitCode, stdout, stderr) ==
    exitCode # 0 /\ Trim(stderr) # <<>>

\* const isFatalError = exitCode !== 0 && !stdout.trim() && stderr.trim()
isFatalError(exitCode, stdout, stderr) ==
    exitCode # 0 /\ Trim(stdout) = <<>> /\ Trim(stderr) # <<>>

FailedResult(revision, stderr) ==
    [revision |-> revision, success |-> FALSE, conflicts |-> <<>>, reverted |-> <<>>,
     errorMessage |-> Trim(stderr)]

DoneResult(revision, cs, rv) ==
    [revision |-> revision, success |-> TRUE, conflicts |-> cs, reverted |-> rv,
     errorMessage |-> NoMessage]

\* Variant of ApplyIgnorePolicy: ignored is set, the resolution is not overridden
ApplyIgnorePolicyFlagOnly(c, patterns) ==
    [c EXCEPT !.ignored = isIgnored(c.path, Workspace, patterns)]

\* The map callback over svnStatusConflicts
ApplyIgnorePolicy(c, patterns) ==
    [c EXCEPT !.resolution = IF isIgnored(c.path, Workspace, patterns)
                             THEN "working" ELSE c.resolution,
              !.ignored = isIgnored(c.path, Workspace, patterns)]

MapIgnorePolicy(cs, patterns) == [n \in 1..Len(cs) |-> ApplyIgnorePolicy(cs[n], patterns)]

\* Variant of ResolveAccept: the default of the conflict's type
ResolveAcceptByType(c) == IF c.type = "tree" THEN "working" ELSE "theirs-full"

\* The accept argument of the svnResolve call
ResolveAccept(c) == c.resolution

\* Variant of ResolveNext: a failed resolve is tried again
ResolveNextRetry(n, success) == IF success THEN n + 1 ELSE n

\* for (const conflict of conflicts): the loop moves on whatever svnResolve returned
ResolveNext(n, success) == n + 1

conflictPaths(cs) == {cs[n].path : n \in 1..Len(cs)}

\* Variant of ShouldRevert: without the conflictPaths test
ShouldRevertAnyIgnored(mod, cs, patterns) == isIgnored(mod.path, Workspace, patterns)

\* The test that guards svnRevert
ShouldRevert(mod, cs, patterns) ==
    mod.path \notin conflictPaths(cs) /\ isIgnored(mod.path, Workspace, patterns)

\* The next modification at or after n that is to be reverted, Len + 1 if none
RECURSIVE NextRevert(_, _, _, _)
NextRevert(mods, n, cs, patterns) ==
    IF n > Len(mods) THEN n
    ELSE IF ShouldRevert(mods[n], cs, patterns) THEN n
    ELSE NextRevert(mods, n + 1, cs, patterns)

\* Variant of PushReverted: pushed whatever svnRevert returned
PushRevertedAlways(rv, mod, success) == Append(rv, mod)

\* if (success) reverted.push(mod)
PushReverted(rv, mod, success) == IF success THEN Append(rv, mod) ELSE rv

-----------------------------------------------------------------------------
(* merger.ts: run *)

NoSummary == <<>>

\* Variant of LoopNext: the loop ends at the first failed revision
LoopNextStopOnFailure(n, result, total) == IF result.success THEN n + 1 ELSE total + 1

\* The loop's increment after results.push(result)
LoopNext(n, result, total) == n + 1

\* Variant of CountFrom: a revision whose conflicts are all ignored counts as succeeded
RECURSIVE CountFromActiveOnly(_, _, _)
CountFromActiveOnly(rs, n, acc) ==
    IF n > Len(rs) THEN acc
    ELSE LET r == rs[n]
         IN  CountFromActiveOnly(rs, n + 1,
                 IF ~r.success THEN [acc EXCEPT !.failed = @ + 1]
                 ELSE IF \E m \in 1..Len(r.conflicts) : ~r.conflicts[m].ignored
                      THEN [acc EXCEPT !.withConflicts = @ + 1]
                 ELSE [acc EXCEPT !.succeeded = @ + 1])

RECURSIVE CountFrom(_, _, _)
CountFrom(rs, n, acc) ==
    IF n > Len(rs) THEN acc
    ELSE LET r == rs[n]
         IN  CountFrom(rs, n + 1,
                 IF ~r.success THEN [acc EXCEPT !.failed = @ + 1]
                 ELSE IF Len(r.conflicts) > 0 THEN [acc EXCEPT !.withConflicts = @ + 1]
                 ELSE [acc EXCEPT !.succeeded = @ + 1])

\* Variant of CountFrom: the second test is not chained with else
RECURSIVE CountFromNoElse(_, _, _)
CountFromNoElse(rs, n, acc) ==
    IF n > Len(rs) THEN acc
    ELSE LET r == rs[n]
             a == IF ~r.success THEN [acc EXCEPT !.failed = @ + 1] ELSE acc
             b == IF Len(r.conflicts) > 0 THEN [a EXCEPT !.withConflicts = @ + 1]
                  ELSE [a EXCEPT !.succeeded = @ + 1]
         IN  CountFromNoElse(rs, n + 1, b)

ZeroCounts == [succeeded |-> 0, withConflicts |-> 0, failed |-> 0]

\* Variant of Summarize, counting with CountFromNoElse
SummarizeNoElse(rs, total) ==
    LET c == CountFromNoElse(rs, 1, ZeroCounts)
    IN  [total |-> total, succeeded |-> c.succeeded, withConflicts |-> c.withConflicts,
         failed |-> c.failed, results |-> rs]

\* The counting loop and the returned MergeSummary
Summarize(rs, total) ==
    LET c == CountFrom(rs, 1, ZeroCounts)
    IN  [total |-> total, succeeded |-> c.succeeded, withConflicts |-> c.withConflicts,
         failed |-> c.failed, results |-> rs]

-----------------------------------------------------------------------------
(* The run as a state machine: one action per gateway call *)

\* options.revisions: the first MaxRevs entries of a list that is not sorted and repeats
\* a revision
RevisionPool == <<7, 5, 7, 9>>

RevisionLists == {SubSeq(RevisionPool, 1, n) : n \in 0..MaxRevs}

IgnoreLists == {<<>>, << <<"g">> >>, << <<"G", "/">>, <<"g", "x">> >>}

Init ==
    /\ pc = "loop"
    /\ revisions \in RevisionLists
    /\ ignorePaths \in IgnoreLists
    /\ i = 1
    /\ results = <<>>
    /\ summary = NoSummary
    /\ wc = [p \in PathSet |-> Clean]
    /\ calls = <<>>
    /\ mergeOut = NoMergeOut
    /\ mergeLog = <<>>
    /\ conflicts = <<>>
    /\ k = 1
    /\ modifications = <<>>
    /\ j = 1
    /\ reverted = <<>>
    /\ probe = NoProbe
    /\ dryRun = FALSE
    /\ commit = FALSE
    /\ mainLog = <<>>
    /\ exitStatus = NotExited

total == Len(revisions)

\* runSvn threw: nothing catches it in mergeRevision, run or the caller of run
Throw(issued) ==
    /\ pc' = "thrown"
    /\ calls' = issued
    /\ mergeOut' = NoMergeOut
    /\ UNCHANGED <<revisions, ignorePaths, i, results, summary, wc,
                   conflicts, k, modifications, j, reverted, probe>>

\* Variant of FinishRevision: the loop goes on without the result of the revision
FinishRevisionNoPush(rv) ==
    /\ results' = results
    /\ i' = i
    /\ pc' = "loop"

\* mergeRevision returns { success: true }; run pushes the result and loops
FinishRevision(rv) ==
    LET result == DoneResult(revisions[i], conflicts, rv)
    IN  /\ results' = Append(results, result)
        /\ i' = LoopNext(i, result, total)
        /\ pc' = "loop"

\* run: loop head, and mergeRevision up to the fatal-error return.  svn reports every
\* path it changes on stdout, so a merge with blank stdout leaves the working copy as it was.
Merge ==
    /\ pc = "loop"
    /\ UNCHANGED mainVars
    /\ i <= total
    /\ mergeLog' = Append(mergeLog, revisions[i])
    /\ \/ Throw(<<Call("merge", revisions[i], <<>>, "", SpawnError)>>)
       \/ \E exitCode \in {0, 1}, stdout \in StdoutTexts, stderr \in StderrTexts,
             eff \in MergeEffects :
            /\ (Trim(stdout) = <<>> => eff = <<>>)
            /\ calls' = <<Call("merge", revisions[i], <<>>, "", CallOk)>>
            /\ mergeOut' = MergeOut(exitCode, stdout, stderr)
            /\ wc' = ApplyEffect(wc, eff)
            /\ conflicts' = <<>>
            /\ modifications' = <<>>
            /\ reverted' = <<>>
            /\ k' = 1
            /\ j' = 1
            /\ IF isFatalError(exitCode, stdout, stderr)
               THEN LET result == FailedResult(revisions[i], stderr)
                    IN  /\ results' = Append(results, result)
                        /\ i' = LoopNext(i, result, total)
                        /\ pc' = "loop"
               ELSE /\ pc' = "status1"
                    /\ UNCHANGED <<results, i>>
            /\ UNCHANGED <<revisions, ignorePaths, summary, probe>>

\* mergeRevision: svnStatusConflicts and the ignore policy
Status1 ==
    /\ pc = "status1"
    /\ UNCHANGED mainVars
    /\ UNCHANGED mergeLog
    /\ \/ Throw(Append(calls, Call("status", revisions[i], <<>>, "", SpawnError)))
       \/ \E ok \in BOOLEAN :
            LET cs == MapIgnorePolicy(svnStatusConflicts(StatusStdout(wc, ok)), ignorePaths)
            IN  /\ conflicts' = cs
                /\ calls' = Append(calls, Call("status", revisions[i], <<>>, "", CallOk))
                /\ k' = 1
                /\ mergeOut' = NoMergeOut
                /\ pc' = IF Len(cs) > 0 THEN "resolve" ELSE "status2"
                /\ UNCHANGED <<revisions, ignorePaths, i, results, summary, wc,
                               modifications, j, reverted, probe>>

\* mergeRevision: one iteration of the resolve loop
Resolve ==
    /\ pc = "resolve"
    /\ UNCHANGED mainVars
    /\ UNCHANGED mergeLog
    /\ LET c == conflicts[k]
       IN  \/ Throw(Append(calls, Call("resolve", revisions[i], c.path, ResolveAccept(c),
                                        SpawnError)))
           \/ \E success \in BOOLEAN :
                /\ calls' = Append(calls, Call("resolve", revisions[i], c.path,
                                               ResolveAccept(c), ItemOut(success)))
                /\ wc' = IF success /\ c.path \in PathSet
                         THEN [wc EXCEPT ![c.path] = ResolvedStatus(@)]
                         ELSE wc
                /\ k' = ResolveNext(k, success)
                /\ pc' = IF ResolveNext(k, success) <= Len(conflicts)
                         THEN "resolve" ELSE "status2"
                /\ UNCHANGED <<revisions, ignorePaths, i, results, summary, mergeOut,
                               conflicts, modifications, j, reverted, probe>>

\* mergeRevision: svnStatusModifications, up to the first svnRevert or the return
Status2 ==
    /\ pc = "status2"
    /\ UNCHANGED mainVars
    /\ UNCHANGED mergeLog
    /\ \/ Throw(Append(calls, Call("status", revisions[i], <<>>, "", SpawnError)))
       \/ \E ok \in BOOLEAN :
            LET mods == svnStatusModifications(StatusStdout(wc, ok))
                n    == NextRevert(mods, 1, conflicts, ignorePaths)
            IN  /\ modifications' = mods
                /\ calls' = Append(calls, Call("status", revisions[i], <<>>, "", CallOk))
                /\ j' = n
                /\ IF n > Len(mods)
                   THEN FinishRevision(reverted)
                   ELSE /\ pc' = "revert"
                        /\ UNCHANGED <<results, i>>
                /\ UNCHANGED <<revisions, ignorePaths, summary, wc, mergeOut, conflicts, k,
                               reverted, probe>>

\* mergeRevision: one svnRevert, up to the next svnRevert or the return
Revert ==
    /\ pc = "revert"
    /\ UNCHANGED mainVars
    /\ UNCHANGED mergeLog
    /\ LET mod == modifications[j]
       IN  \/ Throw(Append(calls, Call("revert", revisions[i], mod.path, "", SpawnError)))
           \/ \E success \in BOOLEAN :
                LET rv == PushReverted(reverted, mod, success)
                    n  == NextRevert(modifications, j + 1, conflicts, ignorePaths)
                IN  /\ calls' = Append(calls, Call("revert", revisions[i], mod.path, "",
                                                   ItemOut(success)))
                    /\ wc' = IF success THEN RevertedCopy(wc, mod.path) ELSE wc
                    /\ reverted' = rv
                    /\ j' = n
                    /\ IF n > Len(modifications)
                       THEN FinishRevision(rv)
                       ELSE /\ pc' = "revert"
                            /\ UNCHANGED <<results, i>>
                    /\ UNCHANGED <<revisions, ignorePaths, summary, mergeOut, conflicts, k,
                                   modifications, probe>>

\* run: the loop is over; count and return the summary
Return ==
    /\ pc = "loop"
    /\ UNCHANGED mainVars
    /\ i > total
    /\ summary' = Summarize(results, total)
    /\ pc' = "returned"
    /\ UNCHANGED <<revisions, ignorePaths, i, results, wc, calls, mergeOut, mergeLog,
                   conflicts, k, modifications, j, reverted, probe>>

Next == Merge \/ Status1 \/ Resolve \/ Status2 \/ Revert \/ Return

Spec == Init /\ [][Next]_vars

-----------------------------------------------------------------------------
(* Properties of mergeRevision and run *)

LastResult == results[Len(results)]

\* A revision has just been completed with success: calls, conflicts and
\* modifications are those of the revision of LastResult
RevisionDone ==
    /\ pc \in {"loop", "returned"}
    /\ results # <<>>
    /\ LastResult.success

\* The path is matched by an ignore rule of the run
Covered(absPath) ==
    \E n \in 1..Len(ignorePaths) :
        RuleCovers(ignorePaths[n], SliceFrom(absPath, Len(Workspace) + 1))

TypeDefault(type) == IF type = "tree" THEN "working" ELSE "theirs-full"

CallSet == {calls[n] : n \in 1..Len(calls)}

ResolveCalls(path) == {c \in CallSet : c.op = "resolve" /\ c.path = path}

RevertIndexes(path) == {n \in 1..Len(calls) : calls[n].op = "revert" /\ calls[n].path = path}

RevertSucceeded(path) ==
    \E n \in RevertIndexes(path) : ~calls[n].out.error /\ calls[n].out.success

\* C2: in every result, a conflict has ignored = TRUE exactly when its path is
\* ignore-matched; an ignored conflict has resolution 'working' whatever its type; any
\* other conflict keeps the default of its type (tree -> working, text and property ->
\* theirs-full).
C2_IgnorePolicy ==
    \A n \in 1..Len(results) :
        \A m \in 1..Len(results[n].conflicts) :
            LET c == results[n].conflicts[m]
            IN  /\ c.ignored = Covered(c.path)
                /\ (c.ignored => c.resolution = "working")
                /\ (~c.ignored => c.resolution = TypeDefault(c.type))

\* C2 witness: one result holds an ignored text conflict and a text conflict that is not ignored
C2_Witness ==
    \E n \in 1..Len(results) :
        /\ \E m \in 1..Len(results[n].conflicts) :
              LET c == results[n].conflicts[m]
              IN  c.ignored /\ c.type = "text" /\ c.resolution = "working"
        /\ \E m \in 1..Len(results[n].conflicts) :
              LET c == results[n].conflicts[m]
              IN  ~c.ignored /\ c.type = "text" /\ c.resolution = "theirs-full"

\* C4: merges are issued in input order, one per entry, also after failed revisions;
\* results[n] is the result of revisions[n]; at the return every revision was merged and
\* the results are as long as the input.
C4_InputOrder ==
    /\ Len(mergeLog) <= Len(revisions)
    /\ mergeLog = SubSeq(revisions, 1, Len(mergeLog))
    /\ Len(results) <= Len(mergeLog)
    /\ \A n \in 1..Len(results) : results[n].revision = revisions[n]
    /\ pc = "loop" => i = Len(results) + 1
    /\ pc = "returned" =>
         /\ mergeLog = revisions
         /\ Len(summary.results) = Len(revisions)
         /\ \A n \in 1..Len(revisions) : summary.results[n].revision = revisions[n]

\* C4 witness: run returned after a failed first revision and a second, smaller revision
C4_Witness ==
    /\ pc = "returned"
    /\ revisions = <<7, 5>>
    /\ ~results[1].success
    /\ mergeLog = <<7, 5>>
    /\ results[2].revision = 5

\* C5: the returned summary has succeeded + withConflicts + failed = total, and total
\* is the number of input revisions.
C5_CountsAddUp ==
    pc = "returned" =>
        /\ summary.succeeded + summary.withConflicts + summary.failed = summary.total
        /\ summary.total = Len(revisions)

\* C5 witness: a returned summary with a failed revision and one with conflicts
C5_Witness ==
    /\ pc = "returned"
    /\ summary.failed = 1
    /\ summary.withConflicts = 1
    /\ summary.total = 2

\* The merge call of the revision in progress has returned and its outputs are live
MergeReturned == pc \in {"loop", "status1", "returned"} /\ mergeOut # NoMergeOut

OnlyMergeCalled == Len(calls) = 1 /\ calls[1].op = "merge"

\* C6 as stated: exit code nonzero, stdout empty after trimming and stderr nonempty
\* give success = FALSE with errorMessage equal to the stderr text, no conflicts, no
\* reverted, and no status, resolve or revert call.
C6_Original ==
    (/\ MergeReturned
     /\ mergeOut.exitCode # 0
     /\ Trim(mergeOut.stdout) = <<>>
     /\ mergeOut.stderr # <<>>)
    => /\ pc \in {"loop", "returned"}
       /\ Len(results) = Len(mergeLog)
       /\ ~LastResult.success
       /\ LastResult.errorMessage = mergeOut.stderr
       /\ LastResult.conflicts = <<>>
       /\ LastResult.reverted = <<>>
       /\ OnlyMergeCalled

\* C6 amended: exit code nonzero, stdout empty after trimming and stderr nonempty after
\* trimming give success = FALSE with errorMessage equal to the trimmed stderr text, no
\* conflicts, no reverted, and no status, resolve or revert call.
C6_FatalMerge ==
    (/\ MergeReturned
     /\ mergeOut.exitCode # 0
     /\ Trim(mergeOut.stdout) = <<>>
     /\ Trim(mergeOut.stderr) # <<>>)
    => /\ pc \in {"loop", "returned"}
       /\ Len(results) = Len(mergeLog)
       /\ ~LastResult.success
       /\ LastResult.errorMessage = Trim(mergeOut.stderr)
       /\ LastResult.conflicts = <<>>
       /\ LastResult.reverted = <<>>
       /\ OnlyMergeCalled

\* C6 witness: a merge that exited nonzero with blank stdout was recorded as failed
C6_Witness ==
    /\ MergeReturned
    /\ mergeOut.exitCode = 1
    /\ mergeOut.stdout = <<SP>>
    /\ mergeOut.stderr = <<"E", SP>>
    /\ pc = "loop"
    /\ ~LastResult.success
    /\ LastResult.errorMessage = <<"E">>

\* C7: for every conflict of a successful revision's result, a resolve call was issued
\* for its path and every resolve call for its path carries the resolution stored in
\* the result; a text conflict on a path no rule matches is resolved with theirs-full.
C7_ResolveUsesStoredResolution ==
    RevisionDone =>
        \A m \in 1..Len(LastResult.conflicts) :
            LET c == LastResult.conflicts[m]
            IN  /\ ResolveCalls(c.path) # {}
                /\ \A call \in ResolveCalls(c.path) : call.accept = c.resolution
                /\ (c.type = "text" /\ ~Covered(c.path)
                      => \E call \in ResolveCalls(c.path) : call.accept = "theirs-full")

\* C7 witness: a completed revision with an unignored text conflict resolved with
\* theirs-full and an ignored text conflict
C7_Witness ==
    /\ RevisionDone
    /\ \E m \in 1..Len(LastResult.conflicts) :
          LET c == LastResult.conflicts[m]
          IN  /\ c.type = "text" /\ ~c.ignored
              /\ \E call \in ResolveCalls(c.path) : call.accept = "theirs-full"
    /\ \E m \in 1..Len(LastResult.conflicts) : LastResult.conflicts[m].ignored

\* The modification is one the revision had to revert, and its revert succeeded
RevertedOk(mod) ==
    /\ Covered(mod.path)
    /\ mod.path \notin {LastResult.conflicts[m].path : m \in 1..Len(LastResult.conflicts)}
    /\ RevertSucceeded(mod.path)

\* C8: the reverted list of a successful revision is the sequence, in status order, of
\* the modifications that are ignore-matched, outside the revision's conflict paths and
\* whose revert succeeded; no path is reverted twice, so a failed revert is not retried
\* and its modification is absent, and the revision is still a success.
C8_RevertedList ==
    RevisionDone =>
        /\ LastResult.reverted = SelectSeq(modifications, RevertedOk)
        /\ \A p \in PathSet : Cardinality(RevertIndexes(p)) <= 1

\* C8 witness: a successful revision in which one revert failed and a later one succeeded
C8_Witness ==
    /\ RevisionDone
    /\ Len(modifications) = 2
    /\ RevertIndexes(modifications[1].path) # {}
    /\ ~RevertSucceeded(modifications[1].path)
    /\ LastResult.reverted = <<modifications[2]>>

\* C9: within one revision no path gets both a resolve call and a revert call, and a
\* revert is only issued for a path outside the revision's conflict set.
C9_NoDoubleHandling ==
    \A a \in CallSet :
        a.op = "revert" =>
            /\ ResolveCalls(a.path) = {}
            /\ a.path \notin conflictPaths(conflicts)

\* C9 witness: an ignored conflict was resolved, the later status lists its path as a
\* modification, and the revision ended without reverting it
C9_Witness ==
    /\ RevisionDone
    /\ \E n \in 1..Len(modifications) :
          /\ Covered(modifications[n].path)
          /\ ResolveCalls(modifications[n].path) # {}
          /\ RevertIndexes(modifications[n].path) = {}

\* C10: no error of a gateway call leaves mergeRevision: the process never reaches the
\* state in which runSvn's exception has propagated out of run.
C10_ErrorsCaptured == pc # "thrown"

-----------------------------------------------------------------------------
(* index.ts: the command-line process around run *)

\* A gateway call or a prompt of index.ts and what it gave: result is "ok", "failed"
\* (nonzero exit), "spawn" (runSvn threw), "returned" or "read"; value is the list or
\* the text it returned
Entry(op, result, value) == [op |-> op, result |-> result, value |-> value]

CallResults == {"ok", "failed", "spawn"}

AllBlank(lines) == \A n \in 1..Len(lines) : Trim(lines[n]) = <<>>

\* The filter keeps a line of two characters or more whose first is neither ' ' nor 'X'
svnStatusDirty(stdoutLines, code) ==
    LET IsDirtyLine(line) == Len(line) >= 2 /\ line[1] # SP /\ line[1] # "X"
    IN  IF code # 0 \/ AllBlank(stdoutLines) THEN <<>>
        ELSE SelectSeq(stdoutLines, IsDirtyLine)

\* What fs.readSync gives promptYN: it throws, or a line of input
PromptReads ==
    {[error |-> TRUE, text |-> <<>>]}
    \cup {[error |-> FALSE, text |-> t] : t \in {<<"Y", "\n">>, <<"n", "\n">>, <<"\n">>}}

\* Variant of promptYN: anything but 'n' is a yes
promptYNUnlessNo(read) ==
    IF read.error THEN FALSE ELSE toLowerCase(Trim(read.text)) # <<"n">>

promptYN(read) ==
    IF read.error THEN FALSE ELSE toLowerCase(Trim(read.text)) = <<"y">>

\* The working copy before the process starts: clean, or with a local modification
InitialCopies ==
    {[p \in PathSet |-> Clean],
     [p \in PathSet |-> IF p = EnginePaths[2] THEN <<"M", SP, SP>> ELSE Clean]}

\* `svn update` succeeded: a locally modified path keeps its change or gets a text conflict
UpdateEffects(w) ==
    {u \in [PathSet -> {Clean, <<"M", SP, SP>>, <<"C", SP, SP>>}] :
        \A p \in PathSet :
            IF w[p] = <<"M", SP, SP>> THEN u[p] \in {w[p], <<"C", SP, SP>>} ELSE u[p] = w[p]}

\* parseInt(text, 10): the value of the leading digits, NaN (here -1) without any
DigitChars == <<"0", "1", "2", "3", "4", "5", "6", "7", "8", "9">>

IsDigit(c) == \E d \in 1..Len(DigitChars) : DigitChars[d] = c

parseInt(text) ==
    LET DigitValue(c) == (CHOOSE d \in 1..Len(DigitChars) : DigitChars[d] = c) - 1
        RECURSIVE ParseDigits(_, _)
        ParseDigits(n, acc) ==
            IF n > Len(text) \/ ~IsDigit(text[n]) THEN acc
            ELSE ParseDigits(n + 1, acc * 10 + DigitValue(text[n]))
    IN  IF text = <<>> \/ ~IsDigit(text[1]) THEN -1 ELSE ParseDigits(1, 0)

\* lines.map(trim).filter(Boolean), then parseInt(l.replace(/^r/, ''), 10) and the
\* filter on positive numbers
RECURSIVE EligibleFrom(_, _)
EligibleFrom(lines, n) ==
    IF n > Len(lines) THEN <<>>
    ELSE LET l == Trim(lines[n])
             stripped == IF l # <<>> /\ l[1] = "r" THEN Tail(l) ELSE l
             v == parseInt(stripped)
         IN  (IF l # <<>> /\ v > 0 THEN <<v>> ELSE <<>>) \o EligibleFrom(lines, n + 1)

svnEligibleRevisions(stdoutLines, code) ==
    IF code # 0 \/ AllBlank(stdoutLines) THEN <<>> ELSE EligibleFrom(stdoutLines, 1)

\* stdout of `svn mergeinfo --show-revs eligible`, split into lines
EligibleStdouts ==
    LET pool == << <<"r", "7">>, <<"r", "9">>, <<"r", "1", "1">> >>
    IN  {SubSeq(pool, 1, n) \o << <<>> >> : n \in 0..MaxEligible}

\* The eligible revisions the process found
eligible == (CHOOSE e \in {mainLog[n] : n \in 1..Len(mainLog)} : e.op = "mergeinfo").value

\* const hasActiveConflicts = summary.results.some((r) => r.conflicts.some((c) => !c.ignored))
hasActiveConflicts(rs) ==
    \E n \in 1..Len(rs) : \E m \in 1..Len(rs[n].conflicts) : ~rs[n].conflicts[m].ignored

\* The branches of the auto-commit block
CommitDecision(sum, active) ==
    IF sum.failed > 0 \/ active THEN "skipped: failures or conflicts"
    ELSE IF sum.succeeded = 0 THEN "skipped: nothing merged"
    ELSE "commit"

\* process.exit(summary.failed > 0 ? 1 : 0)
FinalStatus(sum) == IF sum.failed > 0 THEN 1 ELSE 0

\* buildMessage: mergedRevisions before sorting
SuccessfulRevisions(rs) ==
    LET ok == SelectSeq(rs, LAMBDA r : r.success)
    IN  [n \in 1..Len(ok) |-> ok[n].revision]

\* What svnCommit can do at its call site: return, or throw (nonzero exit or spawn
\* error).  `svn commit` refuses a working copy that holds a conflict.
svnCommitResults(w) ==
    IF \E p \in PathSet : w[p][1] = "C" \/ w[p][2] = "C" \/ w[p][3] = "C"
    THEN {"failed", "spawn"}
    ELSE CallResults

localVars == <<i, results, summary, calls, mergeOut, mergeLog, conflicts, k, modifications,
               j, reverted>>

optionVars == <<ignorePaths, dryRun, commit>>

\* process.exit(code)
Exit(code) ==
    /\ pc' = "exited"
    /\ exitStatus' = code

\* runSvn threw outside every try block: the process dies of the uncaught exception
Uncaught(entry) ==
    /\ pc' = "thrown"
    /\ mainLog' = Append(mainLog, entry)
    /\ UNCHANGED <<revisions, wc, localVars, optionVars, probe, exitStatus>>

\* The lists -r gives: none (the eligible revisions are queried), one revision, two
\* revisions out of order
OptionRevisionLists == {<<>>, <<7>>, <<7, 5>>}

InitMain ==
    /\ pc = "info"
    /\ revisions \in OptionRevisionLists
    /\ ignorePaths \in IgnoreLists
    /\ i = 1
    /\ results = <<>>
    /\ summary = NoSummary
    /\ wc \in InitialCopies
    /\ calls = <<>>
    /\ mergeOut = NoMergeOut
    /\ mergeLog = <<>>
    /\ conflicts = <<>>
    /\ k = 1
    /\ modifications = <<>>
    /\ j = 1
    /\ reverted = <<>>
    /\ probe = NoProbe
    /\ dryRun \in BOOLEAN
    /\ commit \in BOOLEAN
    /\ mainLog = <<>>
    /\ exitStatus = NotExited

\* svnInfo inside try/catch
CheckWorkingCopy ==
    /\ pc = "info"
    /\ \E result \in CallResults :
         /\ mainLog' = Append(mainLog, Entry("info", result, <<>>))
         /\ IF result = "ok"
            THEN pc' = "dirty" /\ UNCHANGED exitStatus
            ELSE Exit(1)
    /\ UNCHANGED <<revisions, wc, localVars, optionVars, probe>>

\* svnStatusDirty, outside every try block
StatusDirty ==
    /\ pc = "dirty"
    /\ \/ Uncaught(Entry("status", "spawn", <<>>))
       \/ \E ok \in BOOLEAN :
            LET dirtyLines == svnStatusDirty(StatusStdout(wc, ok), IF ok THEN 0 ELSE 1)
            IN  /\ mainLog' = Append(mainLog, Entry("status", "returned", dirtyLines))
                /\ pc' = IF Len(dirtyLines) > 0 THEN "confirmDirty" ELSE "update"
                /\ UNCHANGED <<revisions, wc, localVars, optionVars, probe, exitStatus>>

\* promptYN('Continue anyway? [y/N] ')
ConfirmDirty ==
    /\ pc = "confirmDirty"
    /\ \E read \in PromptReads :
         /\ mainLog' = Append(mainLog, Entry("prompt", "read", read))
         /\ IF promptYN(read)
            THEN pc' = "update" /\ UNCHANGED exitStatus
            ELSE Exit(1)
    /\ UNCHANGED <<revisions, wc, localVars, optionVars, probe>>

\* svnUpdate inside try/catch, up to the next gateway call
Update ==
    /\ pc = "update"
    /\ \E result \in CallResults :
         /\ mainLog' = Append(mainLog, Entry("update", result, <<>>))
         /\ IF result = "ok"
            THEN /\ wc' \in UpdateEffects(wc)
                 /\ pc' = IF Len(revisions) = 0 THEN "eligible"
                          ELSE IF dryRun THEN "preview"
                          ELSE "loop"
                 /\ UNCHANGED exitStatus
            ELSE /\ Exit(1)
                 /\ UNCHANGED wc
    /\ UNCHANGED <<revisions, localVars, optionVars, probe>>

\* svnEligibleRevisions inside try/catch
Eligible ==
    /\ pc = "eligible"
    /\ \/ /\ mainLog' = Append(mainLog, Entry("mergeinfo", "spawn", <<>>))
          /\ Exit(1)
       \/ \E code \in {0, 1}, stdout \in EligibleStdouts :
            LET found == svnEligibleRevisions(stdout, code)
            IN  /\ mainLog' = Append(mainLog, Entry("mergeinfo",
                                                    IF code = 0 THEN "ok" ELSE "failed", found))
                /\ IF Len(found) = 0
                   THEN Exit(0)
                   ELSE pc' = "logs" /\ UNCHANGED exitStatus
    /\ UNCHANGED <<revisions, wc, localVars, optionVars, probe>>

\* svnLogBatch(eligible), outside every try block, and the dry-run exit
PreviewLogs ==
    /\ pc = "logs"
    /\ \/ Uncaught(Entry("log", "spawn", <<>>))
       \/ \E result \in {"ok", "failed"} :
            /\ mainLog' = Append(mainLog, Entry("log", result, <<>>))
            /\ IF dryRun
               THEN Exit(0)
               ELSE pc' = "confirmMerge" /\ UNCHANGED exitStatus
            /\ UNCHANGED <<revisions, wc, localVars, optionVars, probe>>

\* promptYN('Merge all N revision(s)? [y/N] '); revisions.push(...eligible)
ConfirmMerge ==
    /\ pc = "confirmMerge"
    /\ \E read \in PromptReads :
         /\ mainLog' = Append(mainLog, Entry("prompt", "read", read))
         /\ IF promptYN(read)
            THEN /\ revisions' = revisions \o eligible
                 /\ pc' = "loop"
                 /\ UNCHANGED exitStatus
            ELSE /\ Exit(0)
                 /\ UNCHANGED revisions
    /\ UNCHANGED <<wc, localVars, optionVars, probe>>

\* Dry run with -r: svnLogBatch(revisions), outside every try block, and exit
DryRunPreview ==
    /\ pc = "preview"
    /\ \/ Uncaught(Entry("log", "spawn", <<>>))
       \/ \E result \in {"ok", "failed"} :
            /\ mainLog' = Append(mainLog, Entry("log", result, <<>>))
            /\ Exit(0)
            /\ UNCHANGED <<revisions, wc, localVars, optionVars, probe>>

\* After run returned: the conflict summary and buildMessage, whose svnLogBatch is
\* outside every try block and issues no call for an empty list
BuildMessage ==
    /\ pc = "returned"
    /\ IF Len(SuccessfulRevisions(summary.results)) = 0
       THEN /\ pc' = "commit"
            /\ UNCHANGED <<revisions, wc, localVars, optionVars, probe, mainLog, exitStatus>>
       ELSE \/ Uncaught(Entry("log", "spawn", <<>>))
            \/ \E result \in {"ok", "failed"} :
                 /\ mainLog' = Append(mainLog, Entry("log", result, <<>>))
                 /\ pc' = "commit"
                 /\ UNCHANGED <<revisions, wc, localVars, optionVars, probe, exitStatus>>

\* The auto-commit block and the final process.exit
AutoCommit ==
    /\ pc = "commit"
    /\ IF commit /\ CommitDecision(summary, hasActiveConflicts(summary.results)) = "commit"
       THEN \E result \in svnCommitResults(wc) :
              /\ mainLog' = Append(mainLog, Entry("commit", result, <<>>))
              /\ IF result = "ok"
                 THEN /\ wc' = [p \in PathSet |-> Clean]
                      /\ Exit(FinalStatus(summary))
                 ELSE /\ Exit(1)
                      /\ UNCHANGED wc
       ELSE /\ Exit(FinalStatus(summary))
            /\ UNCHANGED <<mainLog, wc>>
    /\ UNCHANGED <<revisions, localVars, optionVars, probe>>

NextMain ==
    \/ CheckWorkingCopy \/ StatusDirty \/ ConfirmDirty \/ Update
    \/ Eligible \/ PreviewLogs \/ ConfirmMerge \/ DryRunPreview
    \/ Merge \/ Status1 \/ Resolve \/ Status2 \/ Revert \/ Return
    \/ BuildMessage \/ AutoCommit

SpecMain == InitMain /\ [][NextMain]_vars

-----------------------------------------------------------------------------
(* Properties of mergeRevision and run, continued *)

Conflicted(st) == st[1] = "C" \/ st[2] = "C" \/ st[3] = "C"

\* C12: when mergeRevision has returned success = TRUE, no ignore-matched path of the
\* working copy is in conflict, whatever the resolve calls of the revision returned.
C12_NoIgnoredConflictLeft ==
    RevisionDone => \A p \in PathSet : Covered(p) => ~Conflicted(wc[p])

FailedIndexes == {n \in 1..Len(results) : ~results[n].success}

ConflictIndexes == {n \in 1..Len(results) : results[n].success /\ results[n].conflicts # <<>>}

CleanIndexes == {n \in 1..Len(results) : results[n].success /\ results[n].conflicts = <<>>}

\* C16: in the returned summary failed counts the results with success = FALSE,
\* withConflicts those with success = TRUE and a non-empty conflicts list (also when
\* every conflict is ignored), succeeded those with success = TRUE and no conflict
\* (whatever their reverted list holds); the three classes are disjoint and cover every
\* revision.
C16_SummaryClasses ==
    pc = "returned" =>
        /\ summary.failed = Cardinality(FailedIndexes)
        /\ summary.withConflicts = Cardinality(ConflictIndexes)
        /\ summary.succeeded = Cardinality(CleanIndexes)
        /\ FailedIndexes \cup ConflictIndexes \cup CleanIndexes = 1..Len(revisions)

\* C16 witness: a returned summary counting a revision with only ignored conflicts as
\* withConflicts and a revision with a reverted path and no conflict as succeeded
C16_Witness ==
    /\ pc = "returned"
    /\ summary.withConflicts = 1
    /\ summary.succeeded = 1
    /\ \E n \in ConflictIndexes :
          \A m \in 1..Len(results[n].conflicts) : results[n].conflicts[m].ignored
    /\ \E n \in CleanIndexes : results[n].reverted # <<>>

-----------------------------------------------------------------------------
(* Properties of the command-line process *)

Issued(op) == {n \in 1..Len(mainLog) : mainLog[n].op = op}

\* The process is over: process.exit was called, or an exception nothing caught ended
\* it, which node reports with exit code 1
ProcessEnded == pc \in {"exited", "thrown"}

ProcessExitCode == IF pc = "thrown" THEN 1 ELSE exitStatus

\* C11: for a run that reached the merge loop, the exit code is nonzero iff some
\* revision's result has success = FALSE.
C11_ExitCode ==
    (ProcessEnded /\ mergeLog # <<>>)
    => ((ProcessExitCode # 0) <=> (\E n \in 1..Len(results) : ~results[n].success))

\* C13: in dry-run mode no update, merge, resolve, revert or commit call is issued.
C13_DryRunChangesNothing ==
    dryRun =>
        /\ Issued("update") = {}
        /\ Issued("commit") = {}
        /\ mergeLog = <<>>
        /\ calls = <<>>

\* A resolve call of the revision merged last failed
ResolveFailed == \E c \in CallSet : c.op = "resolve" /\ ~c.out.error /\ ~c.out.success

\* C14: with commit enabled, svnCommit is not invoked in a run in which a revision
\* failed or a conflict was left unresolved because its resolve call failed, ignored
\* or not (stated for the conflicts of the revision merged last).
C14_NoCommitAfterFailure ==
    (commit /\ Issued("commit") # {})
    => /\ \A n \in 1..Len(results) : results[n].success
       /\ ~ResolveFailed

\* Every recorded conflict is on an ignore-matched path
OnlyIgnoredConflicts ==
    \A n \in 1..Len(results) :
        \A m \in 1..Len(results[n].conflicts) : Covered(results[n].conflicts[m].path)

\* C15: with commit enabled, when the process exits after a non-empty run in which
\* every revision merged with success = TRUE and no conflict outside the ignore rules
\* was recorded, svnCommit was invoked exactly once, also when revisions had ignored
\* conflicts.
C15_CommitAfterSuccess ==
    (/\ pc = "exited"
     /\ commit
     /\ mergeLog # <<>>
     /\ Len(results) = Len(revisions)
     /\ \A n \in 1..Len(results) : results[n].success
     /\ OnlyIgnoredConflicts)
    => Cardinality(Issued("commit")) = 1

AnsweredYes(read) ==
    ~read.error /\ read.text \in {<<"y">>, <<"Y">>, <<"y", "\n">>, <<"Y", "\n">>}

InfoSucceeded(n) == mainLog[n].op = "info" /\ mainLog[n].result = "ok"

\* The dirty-status gate passed at n: no dirty line, or the next entry is a yes
DirtyGatePassed(n) ==
    /\ mainLog[n].op = "status"
    /\ mainLog[n].result = "returned"
    /\ \/ mainLog[n].value = <<>>
       \/ /\ n < Len(mainLog)
          /\ mainLog[n + 1].op = "prompt"
          /\ AnsweredYes(mainLog[n + 1].value)

UpdateSucceeded(n) == mainLog[n].op = "update" /\ mainLog[n].result = "ok"

\* A pre-run step failed or the user declined a prompt
GateFailed ==
    \E n \in 1..Len(mainLog) :
        \/ mainLog[n].op \in {"info", "update"} /\ mainLog[n].result # "ok"
        \/ mainLog[n].op = "status" /\ mainLog[n].result = "spawn"
        \/ mainLog[n].op = "prompt" /\ ~AnsweredYes(mainLog[n].value)

\* C17: a merge call is issued only after svnInfo succeeded, then the dirty-status gate
\* passed (no dirty line, or the user answered 'y'), then svnUpdate succeeded; when one
\* of them fails or the user declines a prompt the process ends with no revision
\* attempted.
C17_GatesBeforeMerge ==
    /\ mergeLog # <<>> =>
         \E a, b, c \in 1..Len(mainLog) :
             /\ a < b /\ b < c
             /\ InfoSucceeded(a) /\ DirtyGatePassed(b) /\ UpdateSucceeded(c)
    /\ GateFailed => (pc = "exited" /\ exitStatus \in {0, 1} /\ mergeLog = <<>> /\ results = <<>>)
                     \/ (pc = "thrown" /\ mergeLog = <<>> /\ results = <<>>)

\* C17 witness: a merge was issued in a process whose working copy was dirty and whose
\* user answered yes
C17_Witness ==
    /\ mergeLog # <<>>
    /\ \E n \in Issued("status") : mainLog[n].value # <<>> /\ DirtyGatePassed(n)

-----------------------------------------------------------------------------
(* utils.ts: groupSummaryByType *)

\* String.prototype.localeCompare on the modelled alphabet: the letters compared without
\* case first, punctuation before letters, and lower case before upper case when the
\* texts differ in case only
localeCompare(a, b) ==
    LET UpperChars == {"A", "G", "X", "Y"}
        CharRank(c) ==
            CASE c = "."            -> 1
              [] c = SLASH          -> 2
              [] LowerChar(c) = "a" -> 3
              [] LowerChar(c) = "g" -> 4
              [] LowerChar(c) = "x" -> 5
              [] OTHER              -> 6
        RECURSIVE ComparePrimary(_)
        ComparePrimary(n) ==
            IF n > Len(a) /\ n > Len(b) THEN 0
            ELSE IF n > Len(a) THEN -1
            ELSE IF n > Len(b) THEN 1
            ELSE IF CharRank(a[n]) < CharRank(b[n]) THEN -1
            ELSE IF CharRank(a[n]) > CharRank(b[n]) THEN 1
            ELSE ComparePrimary(n + 1)
        RECURSIVE CompareCase(_)
        CompareCase(n) ==
            IF n > Len(a) THEN 0
            ELSE IF a[n] \notin UpperChars /\ b[n] \in UpperChars THEN -1
            ELSE IF a[n] \in UpperChars /\ b[n] \notin UpperChars THEN 1
            ELSE CompareCase(n + 1)
    IN  IF ComparePrimary(1) # 0 THEN ComparePrimary(1) ELSE CompareCase(1)

\* Variant of SortEntries: the entries stay in the order they were pushed
SortEntriesAsPushed(entries, n, acc) == entries

\* entries.sort with its comparator: entries that are not ignored first, then by path;
\* Array.prototype.sort is stable
RECURSIVE SortEntries(_, _, _)
SortEntries(entries, n, acc) ==
    LET CompareEntries(a, b) ==
            IF a.ignored # b.ignored THEN (IF a.ignored THEN 1 ELSE -1)
            ELSE localeCompare(a.relPath, b.relPath)
        RECURSIVE InsertEntry(_, _)
        InsertEntry(sorted, e) ==
            IF sorted = <<>> THEN <<e>>
            ELSE IF CompareEntries(sorted[Len(sorted)], e) <= 0 THEN Append(sorted, e)
            ELSE Append(InsertEntry(SubSeq(sorted, 1, Len(sorted) - 1), e),
                        sorted[Len(sorted)])
    IN  IF n > Len(entries) THEN acc
        ELSE SortEntries(entries, n + 1, InsertEntry(acc, entries[n]))

\* Variant of SummaryKey: the relative path alone
SummaryKeyPathOnly(c, workspace) == <<relPath(c.path, workspace)>>

\* const key = `${c.type}:${rel}`; no type holds a colon, so the key is the pair
SummaryKey(c, workspace) == <<c.type, relPath(c.path, workspace)>>

\* The conflicts in the order the two nested loops visit them
RECURSIVE AllConflicts(_, _)
AllConflicts(rs, n) ==
    IF n > Len(rs) THEN <<>> ELSE rs[n].conflicts \o AllConflicts(rs, n + 1)

RECURSIVE CollectFrom(_, _, _, _, _)
CollectFrom(cs, n, seen, groups, workspace) ==
    IF n > Len(cs) THEN groups
    ELSE LET c == cs[n]
             key == SummaryKey(c, workspace)
             entry == [type |-> c.type, isDirectory |-> c.isDirectory,
                       relPath |-> relPath(c.path, workspace),
                       resolution |-> IF c.ignored THEN "ignored" ELSE c.resolution,
                       ignored |-> c.ignored]
         IN  IF key \in seen THEN CollectFrom(cs, n + 1, seen, groups, workspace)
             ELSE CollectFrom(cs, n + 1, seen \cup {key},
                      [groups EXCEPT ![c.type] = Append(@, entry)], workspace)

\* The keys of the Map in the order they are inserted, which is the order a Map iterates
GroupKeys == <<"tree", "text", "property">>

groupSummaryByType(rs, workspace) ==
    LET empty == [t \in {GroupKeys[n] : n \in 1..Len(GroupKeys)} |-> <<>>]
        groups == CollectFrom(AllConflicts(rs, 1), 1, {}, empty, workspace)
    IN  [t \in DOMAIN groups |-> SortEntries(groups[t], 1, <<>>)]

\* Conflicts given to the function on its own: one (type, path) pair with two
\* resolutions and flags, the same path under another type and spelled with a
\* backslash, another path, and two more text conflicts: one on a path that differs
\* from the first in case, one ignored on a path that sorts before the others
ProbeConflicts ==
    {[path |-> Abs(<<"g", "/", "a">>), type |-> "text", resolution |-> "theirs-full",
      isDirectory |-> FALSE, ignored |-> FALSE],
     [path |-> Abs(<<"g", "/", "a">>), type |-> "text", resolution |-> "working",
      isDirectory |-> FALSE, ignored |-> TRUE],
     [path |-> Abs(<<"g", "/", "a">>), type |-> "tree", resolution |-> "working",
      isDirectory |-> FALSE, ignored |-> FALSE],
     [path |-> Abs(<<"g", BSLASH, "a">>), type |-> "text", resolution |-> "theirs-full",
      isDirectory |-> FALSE, ignored |-> FALSE],
     [path |-> Abs(<<"G", "x">>), type |-> "property", resolution |-> "working",
      isDirectory |-> TRUE, ignored |-> TRUE],
     [path |-> Abs(<<"G", "x">>), type |-> "text", resolution |-> "theirs-full",
      isDirectory |-> TRUE, ignored |-> FALSE],
     [path |-> Abs(<<"a">>), type |-> "text", resolution |-> "working",
      isDirectory |-> FALSE, ignored |-> TRUE]}

ConflictLists == UNION {[1..n -> ProbeConflicts] : n \in 0..MaxConflicts}

InitGroup ==
    /\ EngineQuiet
    /\ \E first \in ConflictLists, second \in ConflictLists :
         probe = [op |-> "group", in |-> <<[conflicts |-> first], [conflicts |-> second]>>,
                  out |-> <<>>, done |-> FALSE]

Group ==
    /\ probe.op = "group"
    /\ ~probe.done
    /\ probe' = [probe EXCEPT !.out = groupSummaryByType(probe.in, Workspace), !.done = TRUE]
    /\ UNCHANGED <<engineVars, mainVars>>

SpecGroup == InitGroup /\ [][Group]_vars

GroupDone == probe.op = "group" /\ probe.done

ConflictTypes == {"tree", "text", "property"}

\* The conflicts of the input in visiting order, and their workspace-relative paths
GroupInput == probe.in[1].conflicts \o probe.in[2].conflicts

RelOf(c) == SliceFrom(BackToForward(c.path), Len(Workspace) + 1)

Occurrences(t, rel) ==
    {n \in 1..Len(GroupInput) : GroupInput[n].type = t /\ RelOf(GroupInput[n]) = rel}

FirstOccurrence(t, rel) ==
    GroupInput[CHOOSE n \in Occurrences(t, rel) : \A m \in Occurrences(t, rel) : n <= m]

EntriesFor(t, rel) == {n \in 1..Len(probe.out[t]) : probe.out[t][n].relPath = rel}

GroupRels == {RelOf(GroupInput[n]) : n \in 1..Len(GroupInput)}

\* One entry per (type, relative path) of the input, in the bucket of its type, none else
OneEntryPerPair ==
    /\ DOMAIN probe.out = ConflictTypes
    /\ \A t \in ConflictTypes :
         /\ \A n \in 1..Len(probe.out[t]) :
              probe.out[t][n].type = t /\ probe.out[t][n].relPath \in GroupRels
         /\ \A rel \in GroupRels :
              Cardinality(EntriesFor(t, rel)) = (IF Occurrences(t, rel) = {} THEN 0 ELSE 1)

-----------------------------------------------------------------------------
(* index.ts: the -r option; utils.ts: compressRevisions *)

\* for (let rev = from; rev <= to; rev++) revisions.push(rev)
RECURSIVE RangeValues(_, _)
RangeValues(from, to) == IF from > to THEN <<>> ELSE <<from>> \o RangeValues(from + 1, to)

\* The loop over rawRevisions: an invalid entry ends the process with exit code 1
\* (Rejected); dash is the position of the dash when raw.match(/^(\d+)-(\d+)$/)
\* matches, 0 otherwise
RECURSIVE ParseFrom(_, _, _)
ParseFrom(raws, n, acc) ==
    IF n > Len(raws) THEN [ok |-> TRUE, revisions |-> acc]
    ELSE LET raw == raws[n]
             Rejected == [ok |-> FALSE, revisions |-> <<>>]
             AllDigits(text) == \A d \in 1..Len(text) : IsDigit(text[d])
             last == LastIndexOf(raw, "-", Len(raw))
             dash == IF /\ last > 1 /\ last < Len(raw)
                        /\ AllDigits(SubSeq(raw, 1, last - 1))
                        /\ AllDigits(SubSeq(raw, last + 1, Len(raw)))
                     THEN last ELSE 0
         IN  IF dash > 0
             THEN LET from == parseInt(SubSeq(raw, 1, dash - 1))
                      to   == parseInt(SubSeq(raw, dash + 1, Len(raw)))
                  IN  IF from <= 0 \/ to <= 0 \/ from > to THEN Rejected
                      ELSE ParseFrom(raws, n + 1, acc \o RangeValues(from, to))
             ELSE IF parseInt(raw) <= 0 THEN Rejected
             ELSE ParseFrom(raws, n + 1, Append(acc, parseInt(raw)))

\* opts.revisions.split(',').map(trim).filter(Boolean), then the loop
ParseRevisions(entries) ==
    LET trimmed == [n \in 1..Len(entries) |-> Trim(entries[n])]
    IN  ParseFrom(SelectSeq(trimmed, LAMBDA t : t # <<>>), 1, <<>>)

\* String(n) for a positive integer
RECURSIVE ToDecimal(_)
ToDecimal(n) ==
    IF n < 10 THEN <<DigitChars[n + 1]>>
    ELSE ToDecimal(n \div 10) \o <<DigitChars[(n % 10) + 1]>>

\* [...revisions].sort((a, b) => a - b)
SortNumbers(list) ==
    LET RECURSIVE InsertNumber(_, _)
        InsertNumber(sorted, v) ==
            IF sorted = <<>> THEN <<v>>
            ELSE IF sorted[Len(sorted)] <= v THEN Append(sorted, v)
            ELSE Append(InsertNumber(SubSeq(sorted, 1, Len(sorted) - 1), v),
                        sorted[Len(sorted)])
        RECURSIVE SortNumbersFrom(_, _)
        SortNumbersFrom(n, acc) ==
            IF n > Len(list) THEN acc ELSE SortNumbersFrom(n + 1, InsertNumber(acc, list[n]))
    IN  SortNumbersFrom(1, <<>>)

\* start === end ? `${start}` : `${start}-${end}`
RangeText(start, end) ==
    IF start = end THEN ToDecimal(start) ELSE ToDecimal(start) \o <<"-">> \o ToDecimal(end)

\* parts.join(', ')
RECURSIVE JoinParts(_, _)
JoinParts(parts, n) ==
    IF n > Len(parts) THEN <<>>
    ELSE IF n = Len(parts) THEN parts[n]
    ELSE parts[n] \o <<",", SP>> \o JoinParts(parts, n + 1)

\* The loop of compressRevisions from index n, with its start, end and parts
RECURSIVE CompressFrom(_, _, _, _, _)
CompressFrom(sorted, n, start, end, parts) ==
    IF n > Len(sorted) THEN Append(parts, RangeText(start, end))
    ELSE IF sorted[n] = end + 1 THEN CompressFrom(sorted, n + 1, start, sorted[n], parts)
    ELSE CompressFrom(sorted, n + 1, sorted[n], sorted[n],
                      Append(parts, RangeText(start, end)))

compressRevisions(list) ==
    IF Len(list) = 0 THEN <<>>
    ELSE LET sorted == SortNumbers(list)
         IN  JoinParts(CompressFrom(sorted, 2, sorted[1], sorted[1], <<>>), 1)

\* Entries of the -r option: revisions, ranges, a padded one, an empty one, invalid ones
EntryLists ==
    LET OptionEntries ==
            {<<"5">>, <<"2">>, <<"1", "0">>, <<"1", "-", "3">>, <<"5", "-", "6">>,
             <<SP, "6">>, <<>>, <<"3", "-", "1">>, <<"x">>}
    IN  UNION {[1..n -> OptionEntries] : n \in 0..MaxTokens}

InitCompress ==
    /\ EngineQuiet
    /\ \E entries \in EntryLists :
         probe = [op |-> "compress", in |-> entries, out |-> <<>>, done |-> FALSE]

\* The -r option parsed, and compressRevisions of the list as the dry run prints it
Compress ==
    /\ probe.op = "compress"
    /\ ~probe.done
    /\ LET parsed == ParseRevisions(probe.in)
       IN  probe' = [probe EXCEPT
                        !.out = [ok |-> parsed.ok, revisions |-> parsed.revisions,
                                 text |-> compressRevisions(parsed.revisions)],
                        !.done = TRUE]
    /\ UNCHANGED <<engineVars, mainVars>>

SpecCompress == InitCompress /\ [][Compress]_vars

CompressDone == probe.op = "compress" /\ probe.done /\ probe.out.ok

ValuesOf(list) == {list[n] : n \in 1..Len(list)}

\* The end of the maximal run of consecutive values of S that holds a
RECURSIVE RunEnd(_, _)
RunEnd(S, a) == IF a + 1 \in S THEN RunEnd(S, a + 1) ELSE a

\* The maximal runs of S from its least value on, ascending, each as N or A-B
RECURSIVE RunTexts(_)
RunTexts(S) ==
    IF S = {} THEN <<>>
    ELSE LET a == CHOOSE x \in S : \A y \in S : x <= y
             b == RunEnd(S, a)
         IN  <<RangeText(a, b)>> \o RunTexts(S \ (a..b))

ExpectedRanges(S) == JoinParts(RunTexts(S), 1)

\* C19: for every list the -r option can give (any order, repeats possible),
\* compressRevisions returns the ascending, comma-separated maximal runs of consecutive
\* values of the set of the list, a single value as N and a longer run as A-B;
\* [1,2,3,5,6,10] gives "1-3, 5-6, 10".
C19_Compressed ==
    CompressDone => probe.out.text = ExpectedRanges(ValuesOf(probe.out.revisions))

-----------------------------------------------------------------------------
(* svn.ts: svnLogBatch; message.ts: buildMessage *)

Repeat(c, n) == [m \in 1..n |-> c]

\* /^-{10,}$/
IsSeparator(line) == Len(line) >= 10 /\ \A n \in 1..Len(line) : line[n] = "-"

\* lines[i].match(/^r(\d+)\s*\|/): the revision, -1 without a match
HeaderRevision(line) ==
    LET RECURSIVE SkipWhile(_, _)
        SkipWhile(n, chars) ==
            IF n <= Len(line) /\ line[n] \in chars THEN SkipWhile(n + 1, chars) ELSE n
    IN  IF Len(line) < 2 \/ line[1] # "r" \/ ~IsDigit(line[2]) THEN -1
        ELSE LET afterDigits == SkipWhile(2, {DigitChars[d] : d \in 1..Len(DigitChars)})
                 afterBlanks == SkipWhile(afterDigits, Whitespace)
             IN  IF afterBlanks <= Len(line) /\ line[afterBlanks] = "|"
                 THEN parseInt(SliceFrom(line, 1))
                 ELSE -1

\* while (bodyLines.length > 0 && bodyLines[bodyLines.length - 1].trim() === '') bodyLines.pop()
RECURSIVE PopBlankLines(_)
PopBlankLines(bodyLines) ==
    IF bodyLines # <<>> /\ Trim(bodyLines[Len(bodyLines)]) = <<>>
    THEN PopBlankLines(SubSeq(bodyLines, 1, Len(bodyLines) - 1))
    ELSE bodyLines

\* parseSvnLogOutput from line n (1-based); a body is kept as its lines. BodyEnd is the
\* index of the first separator at or after m (Len + 1 if none)
RECURSIVE ParseLogFrom(_, _, _)
ParseLogFrom(lines, n, resultMap) ==
    LET RECURSIVE BodyEnd(_)
        BodyEnd(m) ==
            IF m > Len(lines) \/ IsSeparator(lines[m]) THEN m ELSE BodyEnd(m + 1)
    IN
    IF n > Len(lines) THEN resultMap
    ELSE IF ~IsSeparator(lines[n]) THEN ParseLogFrom(lines, n + 1, resultMap)
    ELSE IF n + 1 > Len(lines) THEN resultMap
    ELSE IF HeaderRevision(lines[n + 1]) = -1 THEN ParseLogFrom(lines, n + 2, resultMap)
    ELSE LET rev   == HeaderRevision(lines[n + 1])
             first == IF n + 2 <= Len(lines) /\ Trim(lines[n + 2]) = <<>> THEN n + 3 ELSE n + 2
             last  == BodyEnd(first)
             body  == PopBlankLines(SubSeq(lines, first, last - 1))
         IN  ParseLogFrom(lines, last,
                 IF rev \in DOMAIN resultMap THEN [resultMap EXCEPT ![rev] = body]
                 ELSE resultMap)

\* The log of the source branch: revision -> the lines of its message
RepositoryLogs ==
    {[r \in {5, 6, 9} |-> CASE r = 5 -> << <<"m">> >>
                             [] r = 6 -> <<>>
                             [] r = 9 -> << <<"m">>, <<>>, <<"n">>, <<>> >>],
     [r \in {5, 6, 9} |-> CASE r = 5 -> << <<SP>> >>
                             [] r = 6 -> << <<"m">> >>
                             [] r = 9 -> <<>>]}

\* stdout of `svn log <url> -r min:max`, split into lines
RECURSIVE LogStdoutFrom(_, _, _)
LogStdoutFrom(repo, r, max) ==
    IF r > max THEN <<Repeat("-", 12), <<>>>>
    ELSE IF r \notin DOMAIN repo THEN LogStdoutFrom(repo, r + 1, max)
    ELSE <<Repeat("-", 12), <<"r">> \o ToDecimal(r) \o <<SP, "|", SP, "a">>, <<>>>>
         \o repo[r] \o LogStdoutFrom(repo, r + 1, max)

\* ok: the command ran; otherwise it exited nonzero
svnLogBatch(list, repo, ok) ==
    LET resultMap == [r \in {list[n] : n \in 1..Len(list)} |-> <<>>]
        sorted    == SortNumbers(list)
    IN  IF Len(list) = 0 \/ ~ok THEN resultMap
        ELSE LET stdout == LogStdoutFrom(repo, sorted[1], sorted[Len(sorted)])
             IN  IF AllBlank(stdout) THEN resultMap ELSE ParseLogFrom(stdout, 1, resultMap)

\* url.replace(/\/$/, '').split('/').pop()
branchName(url) ==
    LET u == IF url # <<>> /\ url[Len(url)] = SLASH THEN SubSeq(url, 1, Len(url) - 1) ELSE url
    IN  SliceFrom(u, LastIndexOf(u, SLASH, Len(u)))

ENTRY_SEP == Repeat(".", 8)

NoLogMessage(rev) == <<"(no log message for r">> \o ToDecimal(rev) \o <<")">>

\* The loop of buildMessage over mergedRevisions; a body of several lines is pushed as
\* one string and is several lines of the message
RECURSIVE MessageBlocks(_, _, _)
MessageBlocks(merged, n, logMap) ==
    IF n > Len(merged) THEN <<>>
    ELSE LET body == logMap[merged[n]]
         IN  (IF body # <<>> /\ body # << <<>> >> THEN body ELSE <<NoLogMessage(merged[n])>>)
             \o <<ENTRY_SEP>> \o MessageBlocks(merged, n + 1, logMap)

MessageHeader(ranges, url) ==
    <<"Merged revision(s) ">> \o ranges \o <<" from ">> \o branchName(url) \o <<":">>

\* The message as its lines; the text ends with a line break
buildMessage(sum, fromUrl, repo, ok) ==
    LET mergedRevisions == SortNumbers(SuccessfulRevisions(sum.results))
        logMap == svnLogBatch(mergedRevisions, repo, ok)
    IN  <<MessageHeader(compressRevisions(mergedRevisions), fromUrl)>>
        \o MessageBlocks(mergedRevisions, 1, logMap) \o << <<>> >>

\* Results given to buildMessage: a revision and whether it merged
MessageResultLists ==
    LET MessageResults ==
            {[revision |-> r, success |-> ok, conflicts |-> <<>>, reverted |-> <<>>] :
                r \in {5, 6, 9}, ok \in BOOLEAN}
    IN  UNION {[1..n -> MessageResults] : n \in 0..MaxRevs}

FromUrls == {<<"u", SLASH, "t">>, <<"u", SLASH, "t", SLASH>>}

InitMessage ==
    /\ EngineQuiet
    /\ \E rs \in MessageResultLists, url \in FromUrls, repo \in RepositoryLogs, ok \in BOOLEAN :
         probe = [op |-> "message",
                  in |-> [summary |-> Summarize(rs, Len(rs)), fromUrl |-> url,
                          repo |-> repo, ok |-> ok],
                  out |-> <<>>, done |-> FALSE]

Message ==
    /\ probe.op = "message"
    /\ ~probe.done
    /\ probe' = [probe EXCEPT
                    !.out = buildMessage(probe.in.summary, probe.in.fromUrl, probe.in.repo,
                                         probe.in.ok),
                    !.done = TRUE]
    /\ UNCHANGED <<engineVars, mainVars>>

SpecMessage == InitMessage /\ [][Message]_vars

MessageDone == probe.op = "message" /\ probe.done

\* The revisions with a result of success = TRUE
MergedSet ==
    {probe.in.summary.results[n].revision :
        n \in {m \in 1..Len(probe.in.summary.results) : probe.in.summary.results[m].success}}

\* The body the log query gave for a revision: its message without the blank lines
\* that end it, nothing when the query failed
FetchedBody(rev) == IF probe.in.ok THEN PopBlankLines(probe.in.repo[rev]) ELSE <<>>

RECURSIVE ExpectedBlocks(_)
ExpectedBlocks(S) ==
    IF S = {} THEN <<>>
    ELSE LET rev == CHOOSE x \in S : \A y \in S : x <= y
         IN  (IF FetchedBody(rev) = <<>> THEN <<NoLogMessage(rev)>> ELSE FetchedBody(rev))
             \o <<Repeat(".", 8)>> \o ExpectedBlocks(S \ {rev})

\* C20: the message is a header naming the compressed set of the revisions with
\* success = TRUE, then, in ascending order, one block per such revision: its log body,
\* or '(no log message for r<N>)' when the body is empty, then the line '........'.
C20_MessageFormat ==
    MessageDone =>
        probe.out = <<MessageHeader(ExpectedRanges(MergedSet), probe.in.fromUrl)>>
                    \o ExpectedBlocks(MergedSet) \o << <<>> >>

-----------------------------------------------------------------------------
(* Properties of mergeRevision, of the status classifier and of the process, continued *)

\* The revision merged last continued to status classification
Continued == pc = "status1" /\ Len(results) < Len(mergeLog)

\* A result was just recorded for the revision merged last
Recorded == pc \in {"loop", "returned"} /\ results # <<>>

StatusCalled == \E c \in CallSet : c.op = "status"

\* C21 as stated: the revision fails exactly when the merge exited nonzero with empty
\* stdout and nonempty stderr, the texts taken as they are; otherwise it continues to
\* status classification.
C21_Original ==
    MergeReturned =>
        (Continued <=> ~(/\ mergeOut.exitCode # 0
                         /\ mergeOut.stdout = <<>>
                         /\ mergeOut.stderr # <<>>))

\* C21 amended: the revision fails exactly when the merge exited nonzero with stdout
\* empty after trimming and stderr nonempty after trimming; a nonzero exit with text on
\* stdout, a nonzero exit with blank stderr and a zero exit with text on stderr continue
\* to status classification, and a recorded result has success = TRUE exactly when the
\* revision continued to it.
C21_NonFatalContinues ==
    /\ MergeReturned =>
         /\ Continued <=> ~(/\ mergeOut.exitCode # 0
                            /\ Trim(mergeOut.stdout) = <<>>
                            /\ Trim(mergeOut.stderr) # <<>>)
         /\ ~Continued => (Recorded /\ ~LastResult.success /\ Len(results) = Len(mergeLog))
         /\ (mergeOut.exitCode # 0 /\ Trim(mergeOut.stdout) # <<>>) => Continued
         /\ (mergeOut.exitCode # 0 /\ Trim(mergeOut.stderr) = <<>>) => Continued
         /\ (mergeOut.exitCode = 0 /\ Trim(mergeOut.stderr) # <<>>) => Continued
    /\ Recorded => (LastResult.success <=> StatusCalled)

\* C21 witness: a merge that exited nonzero with text on both stdout and stderr went on
\* to status classification
C21_Witness ==
    /\ MergeReturned
    /\ mergeOut.exitCode = 1
    /\ mergeOut.stdout = <<"U">>
    /\ mergeOut.stderr = <<"E", SP>>
    /\ Continued

\* The resolve calls of the revision in progress (or last completed), in issue order
ResolveSeq == SelectSeq(calls, LAMBDA c : c.op = "resolve")

\* C22: within a revision the resolve calls follow the conflicts that status reported,
\* one call per conflict in their order and with the conflict's resolution, whatever
\* the calls returned: a failed resolve is not retried and does not end the loop; the
\* result of the returned revision lists every conflict with its resolution and has
\* success = TRUE.
C22_OneResolveEach ==
    /\ pc = "resolve" => Len(ResolveSeq) = k - 1 /\ k <= Len(conflicts)
    /\ (pc \in {"status2", "revert"} \/ RevisionDone) =>
         /\ Len(ResolveSeq) = Len(conflicts)
         /\ \A m \in 1..Len(conflicts) :
              /\ ResolveSeq[m].path = conflicts[m].path
              /\ ResolveSeq[m].accept = conflicts[m].resolution
              /\ Cardinality(ResolveCalls(conflicts[m].path)) = 1
    /\ RevisionDone => LastResult.conflicts = conflicts

\* C22 witness: a revision returned success = TRUE after the resolve of its first
\* conflict failed and the resolve of its second conflict succeeded
C22_Witness ==
    /\ RevisionDone
    /\ Len(LastResult.conflicts) = 2
    /\ Len(ResolveSeq) = 2
    /\ ~ResolveSeq[1].out.success
    /\ ResolveSeq[2].out.success
    /\ LastResult.conflicts[1].resolution = "theirs-full"

CallIndexes(op) == {n \in 1..Len(calls) : calls[n].op = op}

\* A revision is between its merge call and its return
InRevision == pc \in {"status1", "resolve", "status2", "revert"}

\* C23: the calls of one revision start with its merge, which is its only merge; every
\* resolve and every revert follows a status call and no revert precedes a resolve; all
\* calls between two merges belong to one revision, and the next merge is issued only
\* when the result of the revision before it is recorded; a recorded revision ended
\* either as failed right after its merge or as done after the status read that opens
\* the revert phase and the reverts that follow it.
C23_CallOrder ==
    /\ calls # <<>> => CallIndexes("merge") = {1}
    /\ \A n \in CallIndexes("resolve") \cup CallIndexes("revert") :
         \E m \in CallIndexes("status") : m < n
    /\ \A a \in CallIndexes("revert"), b \in CallIndexes("resolve") : b < a
    /\ \A n \in 1..Len(calls) : calls[n].rev = calls[1].rev
    /\ InRevision => (Len(mergeLog) = Len(results) + 1 /\ calls[1].rev = revisions[i])
    /\ pc \in {"loop", "returned"} => Len(mergeLog) = Len(results)
    /\ Recorded =>
         IF LastResult.success
         THEN /\ Cardinality(CallIndexes("status")) = 2
              /\ \A n \in CallIndexes("resolve") : \E m \in CallIndexes("status") : n < m
              /\ \A n \in CallIndexes("revert") : \A m \in CallIndexes("status") : m < n
         ELSE OnlyMergeCalled

\* C23 witness: the second revision of a run returned after a resolve call and a revert
\* call, the first one having failed right after its merge
C23_Witness ==
    /\ Len(results) = 2
    /\ ~results[1].success
    /\ LastResult.success
    /\ CallIndexes("resolve") # {}
    /\ CallIndexes("revert") # {}

\* The paths that the dirty-status check of the process listed before the run
LocallyModified ==
    UNION {{LinePath(mainLog[n].value[m]) : m \in 1..Len(mainLog[n].value)} :
               n \in Issued("status")}

\* C24: a path that was locally modified before the run started, and that the user
\* kept by answering 'y' at the dirty-status prompt, is never passed to revert.
C24_NoRevertOfLocalChange ==
    \A c \in CallSet : c.op = "revert" => c.path \notin LocallyModified

\* C25: the conflicts recorded for a revision are those its merge produced: when the
\* merge of the revision reported no change (blank stdout, so it left the working copy
\* as it was), the status read that follows records no conflict for the revision.
C25_OnlyOwnConflicts ==
    [][(pc = "status1" /\ Trim(mergeOut.stdout) = <<>>) => conflicts' = <<>>]_vars

\* The classified line has its status columns and a path, and no conflict marker
PlainLine ==
    /\ ClassifyDone
    /\ Len(probe.in) > 8
    /\ LinePath(probe.in) # <<>>
    /\ probe.in[1] # "C" /\ probe.in[2] # "C" /\ probe.in[7] # "C"

\* C26: a status line without a conflict marker yields one modification record for its
\* path when it shows a change, a change in the property column alone included, and
\* nothing when it is clean, unversioned ('?') or external ('X'); it yields no conflict.
C26_ModificationLines ==
    PlainLine =>
        /\ probe.out.conflicts = <<>>
        /\ IF probe.in[1] \in {"?", "X"} \/ (probe.in[1] = SP /\ probe.in[2] = SP)
           THEN probe.out.modifications = <<>>
           ELSE /\ Len(probe.out.modifications) = 1
                /\ probe.out.modifications[1].path = LinePath(probe.in)

\* The classified line has its status columns and a path, and no tree-conflict marker
NoTreeMarker ==
    /\ ClassifyDone
    /\ Len(probe.in) > 8
    /\ LinePath(probe.in) # <<>>
    /\ probe.in[7] # "C"

OneConflict(type) ==
    /\ Len(probe.out.conflicts) = 1
    /\ probe.out.conflicts[1].type = type
    /\ probe.out.conflicts[1].resolution = "theirs-full"
    /\ probe.out.conflicts[1].path = LinePath(probe.in)
    /\ probe.out.modifications = <<>>

\* C27: a status line yields at most one record, never a conflict and a modification;
\* without a tree marker, 'C' in column 0 gives one text conflict with theirs-full,
\* also when column 1 is 'C', and a property conflict, with theirs-full, is given
\* exactly when column 1 is 'C' and column 0 is not.
C27_OneRecordPerLine ==
    /\ ClassifyDone => Len(probe.out.conflicts) + Len(probe.out.modifications) <= 1
    /\ (NoTreeMarker /\ probe.in[1] = "C") => OneConflict("text")
    /\ (NoTreeMarker /\ probe.in[1] # "C" /\ probe.in[2] = "C") => OneConflict("property")
    /\ ClassifyDone =>
         \A n \in 1..Len(probe.out.conflicts) :
             probe.out.conflicts[n].type = "property"
                 => (NoTreeMarker /\ probe.in[1] # "C" /\ probe.in[2] = "C")

\* C27 witness: a line with 'C' in columns 0 and 1 and no tree marker gave one text
\* conflict
C27_Witness ==
    /\ NoTreeMarker
    /\ probe.in[1] = "C" /\ probe.in[2] = "C"
    /\ OneConflict("text")

\* Lexicographic order of the relative paths by the letters without case, '.' and '/'
\* before the letters; 0 when the paths differ in case at most
RECURSIVE PathOrder(_, _)
PathOrder(a, b) ==
    LET Rank(c) == CASE c = "." -> 1 [] c = SLASH -> 2 [] c \in {"a", "A"} -> 3
                     [] c \in {"g", "G"} -> 4 [] c \in {"x", "X"} -> 5 [] OTHER -> 6
    IN  IF a = <<>> /\ b = <<>> THEN 0
        ELSE IF a = <<>> THEN -1
        ELSE IF b = <<>> THEN 1
        ELSE IF Rank(Head(a)) # Rank(Head(b))
             THEN (IF Rank(Head(a)) < Rank(Head(b)) THEN -1 ELSE 1)
        ELSE PathOrder(Tail(a), Tail(b))

C29_NoConflictUnseen ==
    /\ (pc = "resolve" /\ k = 1) =>
          \A p \in PathSet : Conflicted(wc[p]) => p \in conflictPaths(conflicts)
    /\ (RevisionDone /\ LastResult.conflicts = <<>>) =>
          \A p \in PathSet : ~Conflicted(wc[p])

\* The process ended right after the eligible-revisions query
EndedAtQuery ==
    /\ pc = "exited"
    /\ mainLog # <<>>
    /\ mainLog[Len(mainLog)].op = "mergeinfo"

\* C30: when the eligible-revisions query fails the process exits with a nonzero
\* status and merges nothing; it exits with status 0 after the query ('No eligible
\* revisions to merge') only when the query succeeded and returned no revision.
C30_QueryFailureReported ==
    /\ \A n \in Issued("mergeinfo") :
          mainLog[n].result \in {"failed", "spawn"}
              => (pc = "exited" /\ exitStatus # 0 /\ mergeLog = <<>>)
    /\ (EndedAtQuery /\ exitStatus = 0) =>
          (mainLog[Len(mainLog)].result = "ok" /\ mainLog[Len(mainLog)].value = <<>>)

====
